---- MODULE Spec2Model ----
(***************************************************************************)
(* Model of garden-core's authorization core: the AuthToken (auth.rs), the *)
(* Capability type (identity.rs), and the AccessControlService decision    *)
(* functions that the integration tests define on top of them.             *)
(***************************************************************************)
EXTENDS Integers, Sequences, FiniteSets, TLC

VARIABLES
    token,        \* the AuthToken the calls are made on
    in_entry,     \* the GardenEntry handed to the access control service
    in_now,       \* the timestamp handed to the decision functions
    in_required,  \* the capability asked of has_capability
    in_path,      \* the resource path handed to can_access_path
    client,       \* the GardenClient: network, connections, topics, groups, sessions
    group_calls,  \* the group ids create_encrypted_group or a matching join was called for
    call,         \* the last call: its name, its arguments and what it returned
    last_signed   \* history of the last sign(): its key, the token's fields, the
                  \* length of the signature it replaced, whether it changed the token

inputs == <<in_entry, in_now, in_required, in_path>>
vars == <<token, in_entry, in_now, in_required, in_path, client, group_calls,
          call, last_signed>>

----------------------------------------------------------------------------
(* Bounds and universes *)

MaxCaps == 2          \* longest capability list
MaxTime == 5          \* timestamps range over -MaxTime..MaxTime

Users == {"alice", "bob", "charlie"}
Devices == {"d1", "d2"}
Groups == {"g1", "g2"}

Times == (0 - MaxTime)..MaxTime

RECURSIVE SeqsUpTo(_, _)
SeqsUpTo(S, n) ==
    IF n = 0 THEN {<<>>}
    ELSE LET shorter == SeqsUpTo(S, n - 1)
         IN shorter \cup {Append(s, x) : s \in {q \in shorter : Len(q) = n - 1}, x \in S}

----------------------------------------------------------------------------
(* identity.rs: Capability *)

PatternKinds == {"ReadMessages", "WriteMessages", "ManageGroup", "ManageDevice"}

ReadMessages(p) == [kind |-> "ReadMessages", pattern |-> p]
WriteMessages(p) == [kind |-> "WriteMessages", pattern |-> p]
ManageGroup(p) == [kind |-> "ManageGroup", pattern |-> p]
ManageDevice(p) == [kind |-> "ManageDevice", pattern |-> p]
CreateInvites == [kind |-> "CreateInvites"]
AdminAccess == [kind |-> "AdminAccess"]

\* the position of each variant in the enum, which bincode writes as a u32
VariantIndex(kind) ==
    CASE kind = "ReadMessages" -> 0
      [] kind = "WriteMessages" -> 1
      [] kind = "ManageGroup" -> 2
      [] kind = "ManageDevice" -> 3
      [] kind = "CreateInvites" -> 4
      [] kind = "AdminAccess" -> 5

----------------------------------------------------------------------------
(* auth.rs: AuthToken *)

None == [present |-> FALSE]
Some(bytes) == [present |-> TRUE, bytes |-> bytes]

AuthToken(user_id, device_id, capabilities, signature, expires_at) ==
    [user_id |-> user_id, device_id |-> device_id, capabilities |-> capabilities,
     signature |-> signature, expires_at |-> expires_at]

\* as is_valid, with a token still valid at the second it expires
is_valid_inclusive(t, now) == t.expires_at >= now

\* as is_valid, with a token that carries no signature never valid
is_valid_signed_only(t, now) == t.signature.present /\ t.expires_at > now

\* as is_valid, with no token valid at time 0 or before
is_valid_after_epoch(t, now) == now > 0 /\ t.expires_at > now

is_valid(t, now) == t.expires_at > now

\* Vec::contains: structural equality with some element
Contains(caps, c) == \E i \in 1..Len(caps) : caps[i] = c

\* as AnyOfKind, without the test of the held capability's variant
AnyOfAnyKind(caps, kind, target) ==
    \E i \in 1..Len(caps) :
        /\ caps[i].kind \in PatternKinds
        /\ (caps[i].pattern = "*" \/ caps[i].pattern = target)

\* as AnyOfKind, with a trailing "*" of the held pattern matching any suffix
AnyOfKindByPrefix(caps, kind, target) ==
    \E i \in 1..Len(caps) :
        /\ caps[i].kind = kind
        /\ \/ caps[i].pattern = "*"
           \/ caps[i].pattern = target
           \/ (caps[i].pattern = "group:*" /\ target = "group:g1")

\* iter().any(|cap| if let K(pattern) = cap { pattern == "*" || pattern == target } else { false })
AnyOfKind(caps, kind, target) ==
    \E i \in 1..Len(caps) :
        /\ caps[i].kind = kind
        /\ (caps[i].pattern = "*" \/ caps[i].pattern = target)

\* as has_capability, with a held wildcard granting the pattern-less capabilities
has_capability_wildcard_grants_all(t, required) ==
    IF Contains(t.capabilities, required) THEN TRUE
    ELSE IF required.kind \in PatternKinds
    THEN AnyOfKind(t.capabilities, required.kind, required.pattern)
    ELSE \E i \in 1..Len(t.capabilities) :
             /\ t.capabilities[i].kind \in PatternKinds
             /\ t.capabilities[i].pattern = "*"

has_capability(t, required) ==
    IF Contains(t.capabilities, required) THEN TRUE
    ELSE CASE required.kind = "ReadMessages" ->
                  AnyOfKind(t.capabilities, "ReadMessages", required.pattern)
           [] required.kind = "WriteMessages" ->
                  AnyOfKind(t.capabilities, "WriteMessages", required.pattern)
           [] required.kind = "ManageGroup" ->
                  AnyOfKind(t.capabilities, "ManageGroup", required.pattern)
           [] required.kind = "ManageDevice" ->
                  AnyOfKind(t.capabilities, "ManageDevice", required.pattern)
           [] OTHER -> FALSE

----------------------------------------------------------------------------
(* bincode::serialize of an AuthToken: little-endian fixed-width integers,  *)
(* u64 length prefixes, u32 enum variant index, one byte of Option tag.     *)

\* the UTF-8 bytes of the strings that occur in signed tokens
Utf8(s) ==
    CASE s = "alice" -> <<97, 108, 105, 99, 101>>
      [] s = "bob" -> <<98, 111, 98>>
      [] s = "charlie" -> <<99, 104, 97, 114, 108, 105, 101>>
      [] s = "d1" -> <<100, 49>>
      [] s = "d2" -> <<100, 50>>
      [] s = "*" -> <<42>>
      [] s = "inbox" -> <<105, 110, 98, 111, 120>>
      [] s = "g1" -> <<103, 49>>
      [] s = "g2" -> <<103, 50>>

\* two's complement, little-endian, width bytes
RECURSIVE LeBytes(_, _)
LeBytes(n, width) ==
    IF width = 0 THEN <<>> ELSE <<n % 256>> \o LeBytes(n \div 256, width - 1)

SerializeString(s) == LeBytes(Len(Utf8(s)), 8) \o Utf8(s)

SerializeCapability(c) ==
    LeBytes(VariantIndex(c.kind), 4)
        \o (IF c.kind \in PatternKinds THEN SerializeString(c.pattern) ELSE <<>>)

RECURSIVE SerializeCapabilities(_)
SerializeCapabilities(caps) ==
    IF caps = <<>> THEN <<>>
    ELSE SerializeCapability(Head(caps)) \o SerializeCapabilities(Tail(caps))

\* A signature's bytes are determined by the signing key and the signed
\* message (Ed25519 is deterministic); they are kept symbolically.
SignerCode(k) == CASE k = "sk_alice" -> 1 [] k = "sk_bob" -> 2 [] OTHER -> 0
SymbolicBytes(b) == <<SignerCode(b.signer)>> \o b.msg

SerializeSignature(sig) ==
    IF sig.present
    THEN <<1>> \o LeBytes(sig.bytes.len, 8) \o SymbolicBytes(sig.bytes)
    ELSE <<0>>

\* as serialize, without the expiry
serialize_no_expiry(t) ==
    SerializeString(t.user_id)
        \o SerializeString(t.device_id)
        \o LeBytes(Len(t.capabilities), 8) \o SerializeCapabilities(t.capabilities)
        \o SerializeSignature(t.signature)

serialize(t) ==
    SerializeString(t.user_id)
        \o SerializeString(t.device_id)
        \o LeBytes(Len(t.capabilities), 8) \o SerializeCapabilities(t.capabilities)
        \o SerializeSignature(t.signature)
        \o LeBytes(t.expires_at, 8)

----------------------------------------------------------------------------
(* ed25519_dalek, symbolically: a signature names its signer and message;   *)
(* it verifies under the signer's public key for that message only.         *)

SigningKeys == {"sk_alice", "sk_bob"}
verifying_key(sk) == [of |-> sk]
VerifyingKeys == {verifying_key(sk) : sk \in SigningKeys}

SIGNATURE_LENGTH == 64

\* signing_key.sign(data).to_bytes().to_vec()
ed25519_sign(sk, data) == [len |-> SIGNATURE_LENGTH, signer |-> sk, msg |-> data]

\* verifying_key.verify(data, &signature).is_ok()
ed25519_verify(vk, data, bytes) == vk = verifying_key(bytes.signer) /\ bytes.msg = data

\* as sign, encoding the token as it is, its previous signature included
sign_without_clearing(t, signing_key) ==
    [t EXCEPT !.signature = Some(ed25519_sign(signing_key, serialize(t)))]

sign(t, signing_key) ==
    LET token_for_signing == [t EXCEPT !.signature = None]
        token_data == serialize(token_for_signing)
    IN [t EXCEPT !.signature = Some(ed25519_sign(signing_key, token_data))]

\* as verify, encoding the token as it is, its signature included
verify_without_clearing(t, vk) ==
    IF t.signature.present
    THEN IF t.signature.bytes.len # SIGNATURE_LENGTH
         THEN FALSE
         ELSE ed25519_verify(vk, serialize(t), t.signature.bytes)
    ELSE FALSE

\* as verify, without the test of the stored signature's length
verify_any_length(t, vk) ==
    IF t.signature.present
    THEN ed25519_verify(vk, serialize([t EXCEPT !.signature = None]), t.signature.bytes)
    ELSE FALSE

verify(t, vk) ==
    IF t.signature.present
    THEN LET token_for_verification == [t EXCEPT !.signature = None]
             token_data == serialize(token_for_verification)
         IN IF t.signature.bytes.len # SIGNATURE_LENGTH
            THEN FALSE
            ELSE ed25519_verify(vk, token_data, t.signature.bytes)
    ELSE FALSE

\* the fields a signature covers
Fields(t) ==
    [user_id |-> t.user_id, device_id |-> t.device_id,
     capabilities |-> t.capabilities, expires_at |-> t.expires_at]

----------------------------------------------------------------------------
(* The token as an object: construction, its four methods, and the writes   *)
(* callers make to its public fields.                                       *)

SignUsers == {"alice", "bob"}
SignCapLists ==
    {<<>>, <<ReadMessages("*"), CreateInvites>>, <<CreateInvites, ReadMessages("*")>>}
SignTimes == {-1, 1}
SignRequired == {ReadMessages("inbox")}

NeverSigned == [signed |-> FALSE]
\* the number of bytes of the stored signature, -1 when there is none
StoredLength(sig) == IF sig.present THEN sig.bytes.len ELSE -1
NoEntry == [variant |-> "none"]
\* no GardenClient has been constructed
NoClient == [network |-> "None"]

\* AuthToken { user_id, device_id, capabilities, signature: None, expires_at }
Init ==
    /\ token \in {AuthToken(u, d, cs, None, e) :
                    u \in SignUsers, d \in Devices, cs \in SignCapLists, e \in SignTimes}
    /\ in_entry = NoEntry
    /\ in_now = 0
    /\ in_required = CreateInvites
    /\ in_path = <<>>
    /\ call = [op |-> "new"]
    /\ last_signed = NeverSigned
    /\ client = NoClient
    /\ group_calls = {}

Sign(k) ==
    /\ token' = sign(token, k)
    /\ call' = [op |-> "sign", signing_key |-> k]
    /\ last_signed' = [signed |-> TRUE, key |-> k, fields |-> Fields(token),
                       replaced_len |-> StoredLength(token.signature),
                       unchanged |-> (token' = token)]
    /\ UNCHANGED <<inputs, client, group_calls>>

\* as Verify, with the signature cleared on the token itself and not on a copy
Verify_clearing_in_place(vk) ==
    /\ call' = [op |-> "verify", verifying_key |-> vk, result |-> verify(token, vk)]
    /\ token' = [token EXCEPT !.signature = None]
    /\ UNCHANGED <<last_signed, inputs, client, group_calls>>

Verify(vk) ==
    /\ call' = [op |-> "verify", verifying_key |-> vk, result |-> verify(token, vk)]
    /\ UNCHANGED <<token, last_signed, inputs, client, group_calls>>

IsValid(t) ==
    /\ call' = [op |-> "is_valid", now |-> t, result |-> is_valid(token, t)]
    /\ UNCHANGED <<token, last_signed, inputs, client, group_calls>>

HasCapability(c) ==
    /\ call' = [op |-> "has_capability", required |-> c,
                result |-> has_capability(token, c)]
    /\ UNCHANGED <<token, last_signed, inputs, client, group_calls>>

\* token.user_id = u
SetUserId(u) ==
    /\ u # token.user_id
    /\ token' = [token EXCEPT !.user_id = u]
    /\ call' = [op |-> "set_user_id"]
    /\ UNCHANGED <<last_signed, inputs, client, group_calls>>

\* token.device_id = d
SetDeviceId(d) ==
    /\ d # token.device_id
    /\ token' = [token EXCEPT !.device_id = d]
    /\ call' = [op |-> "set_device_id"]
    /\ UNCHANGED <<last_signed, inputs, client, group_calls>>

\* token.capabilities.push(..) and the like
SetCapabilities(cs) ==
    /\ cs # token.capabilities
    /\ token' = [token EXCEPT !.capabilities = cs]
    /\ call' = [op |-> "set_capabilities"]
    /\ UNCHANGED <<last_signed, inputs, client, group_calls>>

\* token.expires_at = e
SetExpiresAt(e) ==
    /\ e # token.expires_at
    /\ token' = [token EXCEPT !.expires_at = e]
    /\ call' = [op |-> "set_expires_at"]
    /\ UNCHANGED <<last_signed, inputs, client, group_calls>>

\* the stored signature loses its last byte, or gains one
ResizeSignature(delta) ==
    /\ token.signature.present
    /\ token.signature.bytes.len = SIGNATURE_LENGTH
    /\ token' = [token EXCEPT !.signature.bytes.len = @ + delta]
    /\ call' = [op |-> "resize_signature"]
    /\ UNCHANGED <<last_signed, inputs, client, group_calls>>

Next ==
    \/ \E k \in SigningKeys : Sign(k)
    \/ \E vk \in VerifyingKeys : Verify(vk)
    \/ \E t \in SignTimes : IsValid(t)
    \/ \E c \in SignRequired : HasCapability(c)
    \/ \E u \in SignUsers : SetUserId(u)
    \/ \E d \in Devices : SetDeviceId(d)
    \/ \E cs \in SignCapLists : SetCapabilities(cs)
    \/ \E e \in SignTimes : SetExpiresAt(e)
    \/ \E delta \in {-1, 1} : ResizeSignature(delta)

Spec == Init /\ [][Next]_vars

----------------------------------------------------------------------------
(* Properties of signing and verification, stated of Spec *)

Unsigned(t) == [t EXCEPT !.signature = None]

\* C8: for every token, whatever its fields and whatever signature it held
\* before, sign(k) followed by verify with the public key of k returns true.
C8_SignThenVerify ==
    [][(/\ call.op = "sign"
        /\ call'.op = "verify"
        /\ call'.verifying_key = verifying_key(call.signing_key))
       => call'.result = TRUE]_vars

\* a token with no capabilities, signed over a stored signature of 63 bytes,
\* verifies under the public key of the signing key
C8_Witness ==
    /\ call.op = "verify"
    /\ call.result = TRUE
    /\ token.capabilities = <<>>
    /\ last_signed.signed
    /\ last_signed.replaced_len = 63
    /\ call.verifying_key = verifying_key(last_signed.key)

\* C9: verify returns false when the token has no signature, when the stored
\* signature is not 64 bytes long, when the public key is not the signer's,
\* or when a signed field differs from its value at the time of signing.
C9_VerifyRejects ==
    (/\ call.op = "verify"
     /\ \/ ~token.signature.present
        \/ token.signature.bytes.len # 64
        \/ ~last_signed.signed
        \/ call.verifying_key # verifying_key(last_signed.key)
        \/ token.user_id # last_signed.fields.user_id
        \/ token.device_id # last_signed.fields.device_id
        \/ token.capabilities # last_signed.fields.capabilities
        \/ token.expires_at # last_signed.fields.expires_at)
    => call.result = FALSE

\* verify has answered false on a signed token whose signature lost a byte
\* and whose fields and key are otherwise those of the signing
C9_Witness ==
    /\ call.op = "verify"
    /\ call.result = FALSE
    /\ token.signature.present
    /\ token.signature.bytes.len = 63
    /\ last_signed.signed
    /\ call.verifying_key = verifying_key(last_signed.key)
    /\ Fields(token) = last_signed.fields

\* C10: a token starts Unsigned; sign makes it Signed with 64 bytes; no call
\* returns it to Unsigned; and the signature sign stores is the one it would
\* store on the same token with no signature (re-signing is idempotent).
C10_SigningStateMachine ==
    /\ ~token.signature.present
    /\ [][token.signature.present => token'.signature.present]_vars
    /\ [][call'.op = "sign" =>
            /\ token'.signature.present
            /\ token'.signature.bytes.len = 64
            /\ token' = sign(Unsigned(token), call'.signing_key)]_vars
    /\ [][(/\ call.op = "sign"
           /\ call'.op = "sign"
           /\ call'.signing_key = call.signing_key)
          => token' = token]_vars

\* a signed token has been signed again with the same key, its fields as
\* they were, and holds the signature it held
C10_Witness ==
    /\ call.op = "sign"
    /\ token.signature.present
    /\ last_signed.signed
    /\ last_signed.replaced_len = 64
    /\ last_signed.unchanged

----------------------------------------------------------------------------
(* entries.rs: GardenEntry, with the fields the decisions read *)

DirectMessage(sender_id, recipient_id) ==
    [variant |-> "DirectMessage", sender_id |-> sender_id, recipient_id |-> recipient_id]
GroupMessage(group_id, sender_id) ==
    [variant |-> "GroupMessage", group_id |-> group_id, sender_id |-> sender_id]
FriendRequest(from, to) == [variant |-> "FriendRequest", from |-> from, to |-> to]
BlockedUser(user_id, blocked_user) ==
    [variant |-> "BlockedUser", user_id |-> user_id, blocked_user |-> blocked_user]
MutedUser(user_id, muted_user) ==
    [variant |-> "MutedUser", user_id |-> user_id, muted_user |-> muted_user]
Profile(user_id, field_type) ==
    [variant |-> "Profile", user_id |-> user_id, field_type |-> field_type]
SlashCommand(creator_id, group_id) ==
    [variant |-> "SlashCommand", creator_id |-> creator_id, group_id |-> group_id]
DeviceKey(user_id, device_id) ==
    [variant |-> "DeviceKey", user_id |-> user_id, device_id |-> device_id]
GroupMeta(group_id) == [variant |-> "GroupMeta", group_id |-> group_id]
GroupMember(group_id, user_id) ==
    [variant |-> "GroupMember", group_id |-> group_id, user_id |-> user_id]

----------------------------------------------------------------------------
(* tests/auth_capabilities_integration.rs: AccessControlService *)

Ok(value) == [ok |-> TRUE, value |-> value]
Err(error) == [ok |-> FALSE, error |-> error]

\* as can_access_entry, with a read capability for the sender of a
\* DirectMessage accepted as well as one for its recipient
can_access_entry_reads_by_either_party(t, e, now) ==
    IF ~is_valid(t, now) THEN Err("TokenExpired")
    ELSE CASE e.variant = "DirectMessage" ->
                  IF /\ t.user_id # e.sender_id
                     /\ t.user_id # e.recipient_id
                     /\ ~has_capability(t, ReadMessages(e.recipient_id))
                     /\ ~has_capability(t, ReadMessages(e.sender_id))
                  THEN Err("InsufficientCapabilities")
                  ELSE Ok(TRUE)
           [] e.variant = "GroupMessage" ->
                  IF /\ ~has_capability(t, ReadMessages("group:" \o e.group_id))
                     /\ ~has_capability(t, ManageGroup(e.group_id))
                  THEN Err("InsufficientCapabilities")
                  ELSE Ok(TRUE)
           [] e.variant = "Profile" ->
                  IF /\ t.user_id # e.user_id
                     /\ ~has_capability(t, ReadMessages("profile:" \o e.user_id))
                  THEN Err("InsufficientCapabilities")
                  ELSE Ok(TRUE)
           [] e.variant \in {"GroupMeta", "GroupMember"} ->
                  IF ~has_capability(t, ManageGroup(e.group_id))
                  THEN Err("InsufficientCapabilities")
                  ELSE Ok(TRUE)
           [] OTHER -> Ok(TRUE)

\* as can_access_entry, with the sender of a GroupMessage allowed to read it
can_access_entry_sender_reads_group(t, e, now) ==
    IF ~is_valid(t, now) THEN Err("TokenExpired")
    ELSE CASE e.variant = "DirectMessage" ->
                  IF /\ t.user_id # e.sender_id
                     /\ t.user_id # e.recipient_id
                     /\ ~has_capability(t, ReadMessages(e.recipient_id))
                  THEN Err("InsufficientCapabilities")
                  ELSE Ok(TRUE)
           [] e.variant = "GroupMessage" ->
                  IF /\ t.user_id # e.sender_id
                     /\ ~has_capability(t, ReadMessages("group:" \o e.group_id))
                     /\ ~has_capability(t, ManageGroup(e.group_id))
                  THEN Err("InsufficientCapabilities")
                  ELSE Ok(TRUE)
           [] e.variant = "Profile" ->
                  IF /\ t.user_id # e.user_id
                     /\ ~has_capability(t, ReadMessages("profile:" \o e.user_id))
                  THEN Err("InsufficientCapabilities")
                  ELSE Ok(TRUE)
           [] e.variant \in {"GroupMeta", "GroupMember"} ->
                  IF ~has_capability(t, ManageGroup(e.group_id))
                  THEN Err("InsufficientCapabilities")
                  ELSE Ok(TRUE)
           [] OTHER -> Ok(TRUE)

\* as can_access_entry, with the Settings field of a Profile closed to
\* everyone but its owner
can_access_entry_settings_are_private(t, e, now) ==
    IF ~is_valid(t, now) THEN Err("TokenExpired")
    ELSE CASE e.variant = "DirectMessage" ->
                  IF /\ t.user_id # e.sender_id
                     /\ t.user_id # e.recipient_id
                     /\ ~has_capability(t, ReadMessages(e.recipient_id))
                  THEN Err("InsufficientCapabilities")
                  ELSE Ok(TRUE)
           [] e.variant = "GroupMessage" ->
                  IF /\ ~has_capability(t, ReadMessages("group:" \o e.group_id))
                     /\ ~has_capability(t, ManageGroup(e.group_id))
                  THEN Err("InsufficientCapabilities")
                  ELSE Ok(TRUE)
           [] e.variant = "Profile" ->
                  IF /\ t.user_id # e.user_id
                     /\ \/ e.field_type = "Settings"
                        \/ ~has_capability(t, ReadMessages("profile:" \o e.user_id))
                  THEN Err("InsufficientCapabilities")
                  ELSE Ok(TRUE)
           [] e.variant \in {"GroupMeta", "GroupMember"} ->
                  IF ~has_capability(t, ManageGroup(e.group_id))
                  THEN Err("InsufficientCapabilities")
                  ELSE Ok(TRUE)
           [] OTHER -> Ok(TRUE)

\* as can_access_entry, with a GroupMember entry open to the member it names
can_access_entry_member_reads_own_membership(t, e, now) ==
    IF ~is_valid(t, now) THEN Err("TokenExpired")
    ELSE CASE e.variant = "DirectMessage" ->
                  IF /\ t.user_id # e.sender_id
                     /\ t.user_id # e.recipient_id
                     /\ ~has_capability(t, ReadMessages(e.recipient_id))
                  THEN Err("InsufficientCapabilities")
                  ELSE Ok(TRUE)
           [] e.variant = "GroupMessage" ->
                  IF /\ ~has_capability(t, ReadMessages("group:" \o e.group_id))
                     /\ ~has_capability(t, ManageGroup(e.group_id))
                  THEN Err("InsufficientCapabilities")
                  ELSE Ok(TRUE)
           [] e.variant = "Profile" ->
                  IF /\ t.user_id # e.user_id
                     /\ ~has_capability(t, ReadMessages("profile:" \o e.user_id))
                  THEN Err("InsufficientCapabilities")
                  ELSE Ok(TRUE)
           [] e.variant \in {"GroupMeta", "GroupMember"} ->
                  IF /\ ~(e.variant = "GroupMember" /\ t.user_id = e.user_id)
                     /\ ~has_capability(t, ManageGroup(e.group_id))
                  THEN Err("InsufficientCapabilities")
                  ELSE Ok(TRUE)
           [] OTHER -> Ok(TRUE)

\* as can_access_entry, with a refusal for want of a capability returned as
\* Ok(false)
can_access_entry_answers_false(t, e, now) ==
    IF ~is_valid(t, now) THEN Err("TokenExpired")
    ELSE CASE e.variant = "DirectMessage" ->
                  IF /\ t.user_id # e.sender_id
                     /\ t.user_id # e.recipient_id
                     /\ ~has_capability(t, ReadMessages(e.recipient_id))
                  THEN Ok(FALSE)
                  ELSE Ok(TRUE)
           [] e.variant = "GroupMessage" ->
                  IF /\ ~has_capability(t, ReadMessages("group:" \o e.group_id))
                     /\ ~has_capability(t, ManageGroup(e.group_id))
                  THEN Ok(FALSE)
                  ELSE Ok(TRUE)
           [] e.variant = "Profile" ->
                  IF /\ t.user_id # e.user_id
                     /\ ~has_capability(t, ReadMessages("profile:" \o e.user_id))
                  THEN Ok(FALSE)
                  ELSE Ok(TRUE)
           [] e.variant \in {"GroupMeta", "GroupMember"} ->
                  IF ~has_capability(t, ManageGroup(e.group_id))
                  THEN Ok(FALSE)
                  ELSE Ok(TRUE)
           [] OTHER -> Ok(TRUE)

can_access_entry(t, e, now) ==
    IF ~is_valid(t, now) THEN Err("TokenExpired")
    ELSE CASE e.variant = "DirectMessage" ->
                  IF /\ t.user_id # e.sender_id
                     /\ t.user_id # e.recipient_id
                     /\ ~has_capability(t, ReadMessages(e.recipient_id))
                  THEN Err("InsufficientCapabilities")
                  ELSE Ok(TRUE)
           [] e.variant = "GroupMessage" ->
                  IF /\ ~has_capability(t, ReadMessages("group:" \o e.group_id))
                     /\ ~has_capability(t, ManageGroup(e.group_id))
                  THEN Err("InsufficientCapabilities")
                  ELSE Ok(TRUE)
           [] e.variant = "Profile" ->
                  IF /\ t.user_id # e.user_id
                     /\ ~has_capability(t, ReadMessages("profile:" \o e.user_id))
                  THEN Err("InsufficientCapabilities")
                  ELSE Ok(TRUE)
           [] e.variant \in {"GroupMeta", "GroupMember"} ->
                  IF ~has_capability(t, ManageGroup(e.group_id))
                  THEN Err("InsufficientCapabilities")
                  ELSE Ok(TRUE)
           [] OTHER -> Ok(TRUE)

\* as can_create_entry, with the sender compared before the expiry is looked at
can_create_entry_identity_first(t, e, now) ==
    IF e.variant \in {"DirectMessage", "GroupMessage"} /\ t.user_id # e.sender_id
    THEN Err("IdentityMismatch")
    ELSE IF ~is_valid(t, now) THEN Err("TokenExpired")
    ELSE CASE e.variant = "DirectMessage" ->
                  IF ~has_capability(t, WriteMessages("inbox"))
                  THEN Err("InsufficientCapabilities")
                  ELSE Ok(TRUE)
           [] e.variant = "GroupMessage" ->
                  IF ~has_capability(t, WriteMessages("group:" \o e.group_id))
                  THEN Err("InsufficientCapabilities")
                  ELSE Ok(TRUE)
           [] e.variant \in {"GroupMeta", "GroupMember"} ->
                  IF ~has_capability(t, ManageGroup(e.group_id))
                  THEN Err("InsufficientCapabilities")
                  ELSE Ok(TRUE)
           [] OTHER -> Ok(TRUE)

\* as can_create_entry, with the creator of a SlashCommand and the author of a
\* FriendRequest compared with the token's user as well
can_create_entry_checks_every_author(t, e, now) ==
    IF ~is_valid(t, now) THEN Err("TokenExpired")
    ELSE CASE e.variant = "DirectMessage" ->
                  IF t.user_id # e.sender_id THEN Err("IdentityMismatch")
                  ELSE IF ~has_capability(t, WriteMessages("inbox"))
                  THEN Err("InsufficientCapabilities")
                  ELSE Ok(TRUE)
           [] e.variant = "GroupMessage" ->
                  IF t.user_id # e.sender_id THEN Err("IdentityMismatch")
                  ELSE IF ~has_capability(t, WriteMessages("group:" \o e.group_id))
                  THEN Err("InsufficientCapabilities")
                  ELSE Ok(TRUE)
           [] e.variant = "SlashCommand" ->
                  IF t.user_id # e.creator_id THEN Err("IdentityMismatch") ELSE Ok(TRUE)
           [] e.variant = "FriendRequest" ->
                  IF t.user_id # e.from THEN Err("IdentityMismatch") ELSE Ok(TRUE)
           [] e.variant \in {"GroupMeta", "GroupMember"} ->
                  IF ~has_capability(t, ManageGroup(e.group_id))
                  THEN Err("InsufficientCapabilities")
                  ELSE Ok(TRUE)
           [] OTHER -> Ok(TRUE)

\* as can_create_entry, with the capability looked up before the sender is compared
can_create_entry_capabilities_first(t, e, now) ==
    IF ~is_valid(t, now) THEN Err("TokenExpired")
    ELSE CASE e.variant = "DirectMessage" ->
                  IF ~has_capability(t, WriteMessages("inbox"))
                  THEN Err("InsufficientCapabilities")
                  ELSE IF t.user_id # e.sender_id THEN Err("IdentityMismatch")
                  ELSE Ok(TRUE)
           [] e.variant = "GroupMessage" ->
                  IF ~has_capability(t, WriteMessages("group:" \o e.group_id))
                  THEN Err("InsufficientCapabilities")
                  ELSE IF t.user_id # e.sender_id THEN Err("IdentityMismatch")
                  ELSE Ok(TRUE)
           [] e.variant \in {"GroupMeta", "GroupMember"} ->
                  IF ~has_capability(t, ManageGroup(e.group_id))
                  THEN Err("InsufficientCapabilities")
                  ELSE Ok(TRUE)
           [] OTHER -> Ok(TRUE)

\* as can_create_entry, with a Profile and a DeviceKey writable by their user only
can_create_entry_owner_writes_profile(t, e, now) ==
    IF ~is_valid(t, now) THEN Err("TokenExpired")
    ELSE CASE e.variant = "DirectMessage" ->
                  IF t.user_id # e.sender_id THEN Err("IdentityMismatch")
                  ELSE IF ~has_capability(t, WriteMessages("inbox"))
                  THEN Err("InsufficientCapabilities")
                  ELSE Ok(TRUE)
           [] e.variant = "GroupMessage" ->
                  IF t.user_id # e.sender_id THEN Err("IdentityMismatch")
                  ELSE IF ~has_capability(t, WriteMessages("group:" \o e.group_id))
                  THEN Err("InsufficientCapabilities")
                  ELSE Ok(TRUE)
           [] e.variant = "GroupMeta" ->
                  IF ~has_capability(t, ManageGroup(e.group_id))
                  THEN Err("InsufficientCapabilities")
                  ELSE Ok(TRUE)
           [] e.variant = "GroupMember" ->
                  IF ~has_capability(t, ManageGroup(e.group_id))
                  THEN Err("InsufficientCapabilities")
                  ELSE Ok(TRUE)
           [] e.variant \in {"Profile", "DeviceKey"} ->
                  IF t.user_id # e.user_id THEN Err("IdentityMismatch") ELSE Ok(TRUE)
           [] OTHER -> Ok(TRUE)

\* as can_create_entry, with the manager of any group allowed to write the
\* metadata and the members of every group
can_create_entry_any_group_manager(t, e, now) ==
    IF ~is_valid(t, now) THEN Err("TokenExpired")
    ELSE CASE e.variant = "DirectMessage" ->
                  IF t.user_id # e.sender_id THEN Err("IdentityMismatch")
                  ELSE IF ~has_capability(t, WriteMessages("inbox"))
                  THEN Err("InsufficientCapabilities")
                  ELSE Ok(TRUE)
           [] e.variant = "GroupMessage" ->
                  IF t.user_id # e.sender_id THEN Err("IdentityMismatch")
                  ELSE IF ~has_capability(t, WriteMessages("group:" \o e.group_id))
                  THEN Err("InsufficientCapabilities")
                  ELSE Ok(TRUE)
           [] e.variant = "GroupMeta" ->
                  IF ~\E i \in 1..Len(t.capabilities) : t.capabilities[i].kind = "ManageGroup"
                  THEN Err("InsufficientCapabilities")
                  ELSE Ok(TRUE)
           [] e.variant = "GroupMember" ->
                  IF ~\E i \in 1..Len(t.capabilities) : t.capabilities[i].kind = "ManageGroup"
                  THEN Err("InsufficientCapabilities")
                  ELSE Ok(TRUE)
           [] OTHER -> Ok(TRUE)

can_create_entry(t, e, now) ==
    IF ~is_valid(t, now) THEN Err("TokenExpired")
    ELSE CASE e.variant = "DirectMessage" ->
                  IF t.user_id # e.sender_id THEN Err("IdentityMismatch")
                  ELSE IF ~has_capability(t, WriteMessages("inbox"))
                  THEN Err("InsufficientCapabilities")
                  ELSE Ok(TRUE)
           [] e.variant = "GroupMessage" ->
                  IF t.user_id # e.sender_id THEN Err("IdentityMismatch")
                  ELSE IF ~has_capability(t, WriteMessages("group:" \o e.group_id))
                  THEN Err("InsufficientCapabilities")
                  ELSE Ok(TRUE)
           [] e.variant = "GroupMeta" ->
                  IF ~has_capability(t, ManageGroup(e.group_id))
                  THEN Err("InsufficientCapabilities")
                  ELSE Ok(TRUE)
           [] e.variant = "GroupMember" ->
                  IF ~has_capability(t, ManageGroup(e.group_id))
                  THEN Err("InsufficientCapabilities")
                  ELSE Ok(TRUE)
           [] OTHER -> Ok(TRUE)

----------------------------------------------------------------------------
(* The access control service applied to a token, an entry and a time *)

AuthUsers == {"alice", "bob"}
AuthCaps ==
    {ReadMessages("*"), ReadMessages("bob"), ReadMessages("group:g1"),
     ReadMessages("profile:bob"), WriteMessages("*"), WriteMessages("inbox"),
     WriteMessages("group:g1"), ManageGroup("*"), ManageGroup("g1")}
AuthExpiries == {1, 2}
AuthTimes == {0, 1, 2}

Entries ==
    {DirectMessage(s, r) : s \in AuthUsers, r \in AuthUsers}
        \cup {GroupMessage(g, s) : g \in Groups, s \in AuthUsers}
        \cup {FriendRequest(f, t) : f \in AuthUsers, t \in AuthUsers}
        \cup {BlockedUser("alice", "bob"), MutedUser("alice", "bob")}
        \cup {Profile(u, f) : u \in AuthUsers, f \in {"Avatar", "Settings"}}
        \cup {SlashCommand(u, g) : u \in AuthUsers, g \in {"none", "g1"}}
        \cup {DeviceKey(u, "d1") : u \in AuthUsers}
        \cup {GroupMeta(g) : g \in Groups}
        \cup {GroupMember(g, u) : g \in Groups, u \in AuthUsers}

InitAuth ==
    /\ token \in {AuthToken(u, "d1", cs, None, e) :
                    u \in Users, cs \in SeqsUpTo(AuthCaps, MaxCaps), e \in AuthExpiries}
    /\ in_entry \in Entries
    /\ in_now \in AuthTimes
    /\ in_required = CreateInvites
    /\ in_path = <<>>
    /\ call = [op |-> "new"]
    /\ last_signed = NeverSigned
    /\ client = NoClient
    /\ group_calls = {}

CanAccessEntry ==
    /\ call' = [op |-> "can_access_entry",
                result |-> can_access_entry(token, in_entry, in_now)]
    /\ UNCHANGED <<token, last_signed, inputs, client, group_calls>>

CanCreateEntry ==
    /\ call' = [op |-> "can_create_entry",
                result |-> can_create_entry(token, in_entry, in_now)]
    /\ UNCHANGED <<token, last_signed, inputs, client, group_calls>>

NextAuth == CanAccessEntry \/ CanCreateEntry

SpecAuth == InitAuth /\ [][NextAuth]_vars

----------------------------------------------------------------------------
(* Properties of the entry decisions, stated of SpecAuth *)

IsEntryCall == call.op \in {"can_access_entry", "can_create_entry"}
HoldsBothWildcards ==
    Contains(token.capabilities, ReadMessages("*"))
        /\ Contains(token.capabilities, WriteMessages("*"))
SenderDiffers ==
    in_entry.variant \in {"DirectMessage", "GroupMessage"}
        /\ in_entry.sender_id # token.user_id

\* C1: with expires_at <= now, can_access_entry and can_create_entry both
\* return Err(TokenExpired), for every entry and every capability list: the
\* expiry wins over the identity check and over the capability checks.
C1_ExpiredTokenFails ==
    (IsEntryCall /\ token.expires_at <= in_now) => call.result = Err("TokenExpired")

\* an expired token holding both wildcards has asked to create a message
\* sent by someone else, and got TokenExpired
C1_Witness ==
    /\ call.op = "can_create_entry"
    /\ token.expires_at <= in_now
    /\ HoldsBothWildcards
    /\ SenderDiffers
    /\ call.result = Err("TokenExpired")

\* C2: for a valid token, can_create_entry on a DirectMessage or GroupMessage
\* whose sender_id is not the token's user_id returns Err(IdentityMismatch),
\* whether the write capability is held or not.
C2_SenderMismatchFails ==
    (/\ call.op = "can_create_entry"
     /\ token.expires_at > in_now
     /\ SenderDiffers)
    => call.result = Err("IdentityMismatch")

\* a valid token that lacks every write capability has asked to create a
\* group message sent by someone else, and got IdentityMismatch
C2_Witness ==
    /\ call.op = "can_create_entry"
    /\ token.expires_at > in_now
    /\ in_entry.variant = "GroupMessage"
    /\ in_entry.sender_id # token.user_id
    /\ \A i \in 1..Len(token.capabilities) : token.capabilities[i].kind # "WriteMessages"
    /\ call.result = Err("IdentityMismatch")

AuthorDiffers ==
    \/ SenderDiffers
    \/ in_entry.variant = "SlashCommand" /\ in_entry.creator_id # token.user_id
    \/ in_entry.variant = "FriendRequest" /\ in_entry.from # token.user_id

\* C3 as stated: for a valid token, can_create_entry fails with
\* IdentityMismatch whenever the token's user is not the entry's sender_id,
\* creator_id (SlashCommand) or from (FriendRequest).
C3_AsStated ==
    (/\ call.op = "can_create_entry"
     /\ token.expires_at > in_now
     /\ AuthorDiffers)
    => call.result = Err("IdentityMismatch")

\* C3 as amended: for a valid token, can_create_entry returns
\* Err(IdentityMismatch) exactly for a DirectMessage or GroupMessage whose
\* sender_id is not the token's user_id; a SlashCommand or a FriendRequest is
\* allowed, Ok(true), whoever its creator_id or from names.
C3_IdentityCheckedForMessagesOnly ==
    (call.op = "can_create_entry" /\ token.expires_at > in_now)
    => /\ (call.result = Err("IdentityMismatch")) = SenderDiffers
       /\ in_entry.variant \in {"SlashCommand", "FriendRequest"} => call.result = Ok(TRUE)

\* a valid token with no capabilities has created a SlashCommand whose
\* creator is someone else
C3_Witness ==
    /\ call.op = "can_create_entry"
    /\ token.expires_at > in_now
    /\ in_entry.variant = "SlashCommand"
    /\ in_entry.creator_id # token.user_id
    /\ token.capabilities = <<>>
    /\ call.result = Ok(TRUE)

----------------------------------------------------------------------------
(* has_capability applied to a held list and a required capability *)

Patterns == {"*", "x", "group:*", "group:g1"}
CapUniverse ==
    {ReadMessages(p) : p \in Patterns} \cup {WriteMessages(p) : p \in Patterns}
        \cup {ManageGroup(p) : p \in Patterns} \cup {ManageDevice(p) : p \in Patterns}
        \cup {CreateInvites, AdminAccess}

InitCap ==
    /\ token \in {AuthToken("alice", "d1", cs, None, 1) :
                    cs \in SeqsUpTo(CapUniverse, MaxCaps)}
    /\ in_entry = NoEntry
    /\ in_now = 0
    /\ in_required \in CapUniverse
    /\ in_path = <<>>
    /\ call = [op |-> "new"]
    /\ last_signed = NeverSigned
    /\ client = NoClient
    /\ group_calls = {}

NextCap == HasCapability(in_required)

SpecCap == InitCap /\ [][NextCap]_vars

held == token.capabilities
HeldOfKind(kind) == {i \in 1..Len(held) : held[i].kind = kind}

\* C4: has_capability of a pattern-carrying K(t) is true only if the held list
\* contains a capability of variant K; wildcards of other variants,
\* AdminAccess and CreateInvites never satisfy it.
C4_KindIsolation ==
    (/\ call.op = "has_capability"
     /\ in_required.kind \in PatternKinds
     /\ call.result = TRUE)
    => HeldOfKind(in_required.kind) # {}

\* ReadMessages("x") has been refused to a token holding WriteMessages("*")
\* and AdminAccess
C4_Witness ==
    /\ call.op = "has_capability"
    /\ in_required = ReadMessages("x")
    /\ held = <<WriteMessages("*"), AdminAccess>>
    /\ call.result = FALSE

\* C5: has_capability of K(t) is true iff some held capability of variant K
\* has the pattern "*" or the pattern t itself: no prefix or glob matching,
\* and a required "*" is matched by a held "*" only.
C5_WildcardOrExact ==
    (call.op = "has_capability" /\ in_required.kind \in PatternKinds)
    => call.result =
           (\E i \in HeldOfKind(in_required.kind) :
                held[i].pattern \in {"*", in_required.pattern})

\* ManageGroup("group:g1") has been refused to a token holding
\* ManageGroup("group:*") and ManageGroup("x")
C5_Witness ==
    /\ call.op = "has_capability"
    /\ in_required = ManageGroup("group:g1")
    /\ held = <<ManageGroup("group:*"), ManageGroup("x")>>
    /\ call.result = FALSE

\* C6: has_capability(CreateInvites) is true iff CreateInvites is held, and
\* has_capability(AdminAccess) iff AdminAccess is held; no wildcard grants them.
C6_PatternlessExactOnly ==
    (call.op = "has_capability" /\ in_required.kind \notin PatternKinds)
    => call.result = (HeldOfKind(in_required.kind) # {})

\* AdminAccess has been refused to a token holding ManageGroup("*") and
\* CreateInvites
C6_Witness ==
    /\ call.op = "has_capability"
    /\ in_required = AdminAccess
    /\ held = <<ManageGroup("*"), CreateInvites>>
    /\ call.result = FALSE

----------------------------------------------------------------------------
(* is_valid applied to an expiry and a time of either sign *)

InitValid ==
    /\ token \in {AuthToken("alice", "d1", <<>>, None, e) : e \in Times}
    /\ in_entry = NoEntry
    /\ in_now \in Times
    /\ in_required = CreateInvites
    /\ in_path = <<>>
    /\ call = [op |-> "new"]
    /\ last_signed = NeverSigned
    /\ client = NoClient
    /\ group_calls = {}

NextValid == IsValid(in_now)

SpecValid == InitValid /\ [][NextValid]_vars

\* C7: is_valid(now) is true exactly when expires_at > now; a token whose
\* expires_at equals now is invalid, for negative and positive timestamps.
C7_ValidIffExpiresLater ==
    call.op = "is_valid"
    => /\ call.result = (call.now < token.expires_at)
       /\ token.expires_at = call.now => call.result = FALSE

\* is_valid has answered false at the very second of a negative expiry
C7_Witness ==
    /\ call.op = "is_valid"
    /\ token.expires_at < 0
    /\ call.now = token.expires_at
    /\ call.result = FALSE

----------------------------------------------------------------------------
(* path.rs and tests/auth_path_integration.rs: resource paths.              *)
(* A path string is the sequence of its pieces: the character "/", the      *)
(* character ".", and maximal runs of other characters.                     *)

\* the string a sequence of pieces spells
RECURSIVE Spell(_)
Spell(pieces) == IF pieces = <<>> THEN "" ELSE Head(pieces) \o Spell(Tail(pieces))

\* parts.join("/")
RECURSIVE build_path(_)
build_path(parts) ==
    IF parts = <<>> THEN <<>>
    ELSE IF Len(parts) = 1 THEN Head(parts)
    ELSE Head(parts) \o <<"/">> \o build_path(Tail(parts))

\* path.contains("..")
ContainsDotDot(path) ==
    \E i \in 1..(Len(path) - 1) : path[i] = "." /\ path[i + 1] = "."

validate_path_nonempty_only(path) == path # <<>>

\* as validate_path, with ".." refused only where it is a whole segment
validate_path_whole_segments(path) ==
    /\ path # <<>>
    /\ ~\E i \in 1..(Len(path) - 1) :
           /\ path[i] = "." /\ path[i + 1] = "."
           /\ (i = 1 \/ path[i - 1] = "/")
           /\ (i + 1 = Len(path) \/ path[i + 2] = "/")

validate_path(path) == path # <<>> /\ ~ContainsDotDot(path)

\* path.split('/').collect(): the pieces between the slashes, empty runs kept
RECURSIVE SplitFrom(_, _)
SplitFrom(path, current) ==
    IF path = <<>> THEN <<current>>
    ELSE IF Head(path) = "/" THEN <<current>> \o SplitFrom(Tail(path), <<>>)
    ELSE SplitFrom(Tail(path), Append(current, Head(path)))

split(path) == SplitFrom(path, <<>>)

\* the segments of a path, each as the string it spells
Components(path) ==
    LET parts == split(path) IN [i \in 1..Len(parts) |-> Spell(parts[i])]

ProfilesArm_without_self_access(t, components) ==
    LET user_id == components[2]
    IN IF Len(components) >= 3 /\ components[3] = "public"
       THEN \/ has_capability(t, ReadMessages("profiles/" \o user_id \o "/public"))
            \/ has_capability(t, ReadMessages("profiles/" \o user_id))
       ELSE has_capability(t, ReadMessages("profiles/" \o user_id))

ProfilesArm_public_scope_grants_all(t, components) ==
    LET user_id == components[2]
    IN IF t.user_id = user_id THEN TRUE
       ELSE \/ has_capability(t, ReadMessages("profiles/" \o user_id \o "/public"))
            \/ has_capability(t, ReadMessages("profiles/" \o user_id))

\* the "profiles" arm of can_access_path
ProfilesArm(t, components) ==
    LET user_id == components[2]
    IN IF t.user_id = user_id THEN TRUE
       ELSE IF Len(components) >= 3 /\ components[3] = "public"
       THEN \/ has_capability(t, ReadMessages("profiles/" \o user_id \o "/public"))
            \/ has_capability(t, ReadMessages("profiles/" \o user_id))
       ELSE has_capability(t, ReadMessages("profiles/" \o user_id))

MessagesArm_either_order(t, components) ==
    IF Len(components) < 4 THEN FALSE
    ELSE LET sender_id == components[2]
             recipient_id == components[3]
         IN IF t.user_id = sender_id \/ t.user_id = recipient_id THEN TRUE
            ELSE \/ has_capability(t, ReadMessages("messages/" \o sender_id
                                                       \o "/" \o recipient_id))
                 \/ has_capability(t, ReadMessages("messages/" \o recipient_id
                                                       \o "/" \o sender_id))

\* the "messages" arm of can_access_path
MessagesArm(t, components) ==
    IF Len(components) < 4 THEN FALSE
    ELSE LET sender_id == components[2]
             recipient_id == components[3]
         IN IF t.user_id = sender_id \/ t.user_id = recipient_id THEN TRUE
            ELSE has_capability(t, ReadMessages("messages/" \o sender_id
                                                    \o "/" \o recipient_id))

GroupsArm_manager_reads_messages(t, components) ==
    IF Len(components) < 2 THEN FALSE
    ELSE LET group_id == components[2]
         IN IF Len(components) >= 3 /\ components[3] = "messages"
            THEN \/ has_capability(t, ReadMessages("groups/" \o group_id))
                 \/ has_capability(t, ManageGroup(group_id))
            ELSE has_capability(t, ManageGroup(group_id))

\* the "groups" arm of can_access_path
GroupsArm(t, components) ==
    IF Len(components) < 2 THEN FALSE
    ELSE LET group_id == components[2]
         IN IF Len(components) >= 3 /\ components[3] = "messages"
            THEN has_capability(t, ReadMessages("groups/" \o group_id))
            ELSE has_capability(t, ManageGroup(group_id))

DevicesArm_without_self_access(t, components) ==
    IF Len(components) < 2 THEN FALSE
    ELSE has_capability(t, ManageDevice(components[2]))

\* the "devices" arm of can_access_path
DevicesArm(t, components) ==
    IF Len(components) < 2 THEN FALSE
    ELSE LET user_id == components[2]
         IN IF t.user_id = user_id THEN TRUE
            ELSE has_capability(t, ManageDevice(user_id))

can_access_path(t, path, now) ==
    IF ~is_valid(t, now) THEN FALSE
    ELSE IF ~validate_path(path) THEN FALSE
    ELSE LET components == Components(path)
         IN IF Len(components) < 2 THEN FALSE
            ELSE CASE components[1] = "profiles" -> ProfilesArm(t, components)
                   [] components[1] = "messages" -> MessagesArm(t, components)
                   [] components[1] = "groups" -> GroupsArm(t, components)
                   [] components[1] = "devices" -> DevicesArm(t, components)
                   [] OTHER -> FALSE

----------------------------------------------------------------------------
(* can_access_path applied to a token, a path and a time *)

MaxSegments == 4      \* most segments of a path

\* what the n-th segment of a path may be
SegmentsAt(n) ==
    CASE n = 1 -> {<<"profiles">>, <<"messages">>, <<"groups">>, <<"devices">>, <<"files">>}
      [] n = 2 -> {<<"alice">>, <<"charlie">>, <<"g1">>, <<>>}
      [] n = 3 -> {<<"public">>, <<"messages">>, <<"alice">>, <<"charlie">>, <<>>,
                   <<".", ".">>}
      [] n = 4 -> {<<"avatar">>}
      [] OTHER -> {<<"x">>}

RECURSIVE SegmentLists(_)
SegmentLists(n) ==
    IF n = 0 THEN {<<>>}
    ELSE {Append(segs, seg) : segs \in SegmentLists(n - 1), seg \in SegmentsAt(n)}

Paths == {build_path(segs) : segs \in UNION {SegmentLists(n) : n \in 0..MaxSegments}}

PathUsers == {"alice", "bob"}
PathCaps ==
    {ReadMessages("*"), ReadMessages("profiles/alice/public"), ReadMessages("profiles/alice"),
     ReadMessages("messages/alice/charlie"), ReadMessages("messages/charlie/alice"),
     ReadMessages("groups/g1"), ManageGroup("g1"),
     ManageDevice("alice"), ManageDevice("*")}
EveryWildcard ==
    <<ReadMessages("*"), WriteMessages("*"), ManageGroup("*"), ManageDevice("*"),
      AdminAccess>>

InitPath ==
    /\ token \in {AuthToken(u, "d1", cs, None, 1) :
                    u \in PathUsers,
                    cs \in SeqsUpTo(PathCaps, MaxCaps) \cup {EveryWildcard}}
    /\ in_entry = NoEntry
    /\ in_now \in {0, 1}
    /\ in_required = CreateInvites
    /\ in_path \in Paths
    /\ call = [op |-> "new"]
    /\ last_signed = NeverSigned
    /\ client = NoClient
    /\ group_calls = {}

CanAccessPath ==
    /\ call' = [op |-> "can_access_path",
                result |-> can_access_path(token, in_path, in_now)]
    /\ UNCHANGED <<token, last_signed, inputs, client, group_calls>>

NextPath == CanAccessPath

SpecPath == InitPath /\ [][NextPath]_vars

----------------------------------------------------------------------------
(* Properties of can_access_path *)

IsPathCall == call.op = "can_access_path"
TokenValidAtNow == in_now < token.expires_at
segments == Components(in_path)
Namespaces == {"profiles", "messages", "groups", "devices"}

\* the held list has a capability of this variant whose pattern is the given
\* one or "*"
Holds(kind, pattern) ==
    \E i \in HeldOfKind(kind) : held[i].pattern = pattern \/ held[i].pattern = "*"

PathOf(segs) == build_path(segs)

\* C11: can_access_path is false whenever the token is not valid at now, the
\* path is empty or contains "..", the path has fewer than 2 segments, or its
\* first segment is not profiles, messages, groups or devices -- whoever the
\* token's user is and whatever capabilities it holds.
C11_ClosedDefaultDeny ==
    (/\ IsPathCall
     /\ \/ ~TokenValidAtNow
        \/ in_path = <<>>
        \/ ContainsDotDot(in_path)
        \/ Len(segments) < 2
        \/ segments[1] \notin Namespaces)
        => call.result = FALSE

\* the owner, holding every wildcard and AdminAccess, is refused a path of
\* their own profile that contains ".."
C11_Witness ==
    /\ IsPathCall
    /\ TokenValidAtNow
    /\ token.user_id = "alice"
    /\ token.capabilities = EveryWildcard
    /\ in_path = PathOf(<< <<"profiles">>, <<"alice">>, <<".", ".">>, <<"avatar">> >>)
    /\ call.result = FALSE

AvatarPath == PathOf(<< <<"profiles">>, <<"alice">>, <<"public">>, <<"avatar">> >>)

\* C12: with a valid token, can_access_path on "profiles/alice/public/avatar"
\* is true for alice's token with no capabilities, and for bob's token it is
\* true exactly when the token holds ReadMessages("profiles/alice/public") or
\* ReadMessages("profiles/alice") (by that pattern or by "*").
C12_PublicProfilePath ==
    (IsPathCall /\ TokenValidAtNow /\ in_path = AvatarPath)
        => /\ (token.user_id = "alice" /\ token.capabilities = <<>>)
                  => call.result = TRUE
           /\ token.user_id = "bob"
                  => call.result = (\/ Holds("ReadMessages", "profiles/alice/public")
                                    \/ Holds("ReadMessages", "profiles/alice"))

C12_Witness ==
    /\ IsPathCall
    /\ TokenValidAtNow
    /\ in_path = AvatarPath
    /\ token.user_id = "alice"
    /\ token.capabilities = <<>>
    /\ call.result = TRUE

IsPrivateProfilePath ==
    /\ ~ContainsDotDot(in_path)
    /\ Len(segments) >= 2
    /\ segments[1] = "profiles"
    /\ (Len(segments) = 2 \/ segments[3] # "public")

\* C13: for a valid token of another user, can_access_path on profiles/{user}
\* or on profiles/{user}/x/... with x other than "public" is true exactly when
\* the token holds ReadMessages("profiles/{user}"); the public-scoped
\* ReadMessages("profiles/{user}/public") alone yields false.
C13_PrivateProfileNeedsBroadCapability ==
    (/\ IsPathCall
     /\ TokenValidAtNow
     /\ IsPrivateProfilePath
     /\ token.user_id # segments[2])
        => call.result = Holds("ReadMessages", "profiles/" \o segments[2])

C13_Witness ==
    /\ IsPathCall
    /\ TokenValidAtNow
    /\ token.user_id = "bob"
    /\ token.capabilities = <<ReadMessages("profiles/alice/public")>>
    /\ in_path = PathOf(<< <<"profiles">>, <<"alice">>, <<"messages">>, <<"avatar">> >>)
    /\ call.result = FALSE

\* C14: for a valid token and a path without "..", a messages path of fewer
\* than 4 segments is refused even to its sender and recipient; with 4 or more
\* segments messages/{sender}/{recipient}/... is granted to the sender and to
\* the recipient, and to anyone else exactly when the token holds
\* ReadMessages("messages/{sender}/{recipient}") in that order.
C14_MessagePaths ==
    (/\ IsPathCall
     /\ TokenValidAtNow
     /\ ~ContainsDotDot(in_path)
     /\ Len(segments) >= 2
     /\ segments[1] = "messages")
        => IF Len(segments) < 4 THEN call.result = FALSE
           ELSE IF token.user_id \in {segments[2], segments[3]} THEN call.result = TRUE
           ELSE call.result =
                    Holds("ReadMessages", "messages/" \o segments[2] \o "/" \o segments[3])

\* a third party holding the pair in the reverse order is refused
C14_Witness ==
    /\ IsPathCall
    /\ TokenValidAtNow
    /\ token.user_id = "bob"
    /\ token.capabilities = <<ReadMessages("messages/charlie/alice")>>
    /\ in_path = PathOf(<< <<"messages">>, <<"alice">>, <<"charlie">>, <<"avatar">> >>)
    /\ call.result = FALSE

\* C15: for a valid token and a path without "..", groups/{group}/messages/...
\* is granted exactly when the token holds ReadMessages("groups/{group}"), and
\* every other groups/{group}/... path, groups/{group} included, exactly when
\* it holds ManageGroup({group}); the token's user plays no part.
C15_GroupPaths ==
    (/\ IsPathCall
     /\ TokenValidAtNow
     /\ ~ContainsDotDot(in_path)
     /\ Len(segments) >= 2
     /\ segments[1] = "groups")
        => IF Len(segments) >= 3 /\ segments[3] = "messages"
           THEN call.result = Holds("ReadMessages", "groups/" \o segments[2])
           ELSE call.result = Holds("ManageGroup", segments[2])

\* a manager of the group without the read capability is refused its messages
C15_Witness ==
    /\ IsPathCall
    /\ TokenValidAtNow
    /\ token.capabilities = <<ManageGroup("g1")>>
    /\ in_path = PathOf(<< <<"groups">>, <<"g1">>, <<"messages">> >>)
    /\ call.result = FALSE

\* C16: for a valid token and a path without "..", devices/{user}/... is
\* granted to {user}, and to anyone else exactly when the token holds
\* ManageDevice({user}) by that pattern or by "*".
C16_DevicePaths ==
    (/\ IsPathCall
     /\ TokenValidAtNow
     /\ ~ContainsDotDot(in_path)
     /\ Len(segments) >= 2
     /\ segments[1] = "devices")
        => IF token.user_id = segments[2] THEN call.result = TRUE
           ELSE call.result = Holds("ManageDevice", segments[2])

C16_Witness ==
    /\ IsPathCall
    /\ TokenValidAtNow
    /\ token.user_id = "alice"
    /\ token.capabilities = <<>>
    /\ in_path = PathOf(<< <<"devices">>, <<"alice">> >>)
    /\ call.result = TRUE

----------------------------------------------------------------------------
(* Properties of can_access_entry, variant by variant *)

IsAccessCall == call.op = "can_access_entry"
Denied == Err("InsufficientCapabilities")

\* C17: for a valid token, can_access_entry on a DirectMessage is Ok(true) for
\* its sender and its recipient; for anyone else it is Ok(true) exactly when
\* the token holds ReadMessages(recipient_id), by that pattern or by "*", and
\* Err(InsufficientCapabilities) otherwise -- ReadMessages(sender_id) does
\* not count.
C17_DirectMessageAccess ==
    (IsAccessCall /\ TokenValidAtNow /\ in_entry.variant = "DirectMessage")
        => call.result =
               IF \/ token.user_id \in {in_entry.sender_id, in_entry.recipient_id}
                  \/ Holds("ReadMessages", in_entry.recipient_id)
               THEN Ok(TRUE) ELSE Denied

\* a third party holding only the read capability for the sender is refused
C17_Witness ==
    /\ IsAccessCall
    /\ TokenValidAtNow
    /\ in_entry = DirectMessage("bob", "alice")
    /\ token.user_id = "charlie"
    /\ token.capabilities = <<ReadMessages("bob")>>
    /\ call.result = Denied

\* C18: for a valid token, can_access_entry on a GroupMessage is Ok(true)
\* exactly when the token holds ReadMessages("group:" + group_id) or
\* ManageGroup(group_id), by that pattern or by "*", and
\* Err(InsufficientCapabilities) otherwise, its sender included.
C18_GroupMessageAccess ==
    (IsAccessCall /\ TokenValidAtNow /\ in_entry.variant = "GroupMessage")
        => call.result =
               IF \/ Holds("ReadMessages", "group:" \o in_entry.group_id)
                  \/ Holds("ManageGroup", in_entry.group_id)
               THEN Ok(TRUE) ELSE Denied

\* the sender of a group message, holding nothing, is refused it
C18_Witness ==
    /\ IsAccessCall
    /\ TokenValidAtNow
    /\ in_entry = GroupMessage("g1", "alice")
    /\ token.user_id = "alice"
    /\ token.capabilities = <<>>
    /\ call.result = Denied

\* C19: for a valid token, can_access_entry on a Profile is Ok(true) for the
\* profile's user; for anyone else it is Ok(true) exactly when the token holds
\* ReadMessages("profile:" + user_id), by that pattern or by "*", and
\* Err(InsufficientCapabilities) otherwise, whatever the field type.
C19_ProfileAccess ==
    (IsAccessCall /\ TokenValidAtNow /\ in_entry.variant = "Profile")
        => call.result =
               IF \/ token.user_id = in_entry.user_id
                  \/ Holds("ReadMessages", "profile:" \o in_entry.user_id)
               THEN Ok(TRUE) ELSE Denied

\* a third party holding the profile's read capability reads its Settings
C19_Witness ==
    /\ IsAccessCall
    /\ TokenValidAtNow
    /\ in_entry = Profile("bob", "Settings")
    /\ token.user_id = "charlie"
    /\ token.capabilities = <<ReadMessages("profile:bob")>>
    /\ call.result = Ok(TRUE)

\* C20: for a valid token, can_access_entry on a GroupMeta or GroupMember is
\* Ok(true) exactly when the token holds ManageGroup(group_id), by that
\* pattern or by "*", and Err(InsufficientCapabilities) otherwise, the member
\* a GroupMember entry names included.
C20_GroupRecordsNeedManageGroup ==
    (IsAccessCall /\ TokenValidAtNow /\ in_entry.variant \in {"GroupMeta", "GroupMember"})
        => call.result =
               IF Holds("ManageGroup", in_entry.group_id) THEN Ok(TRUE) ELSE Denied

\* a member without ManageGroup is refused their own membership entry
C20_Witness ==
    /\ IsAccessCall
    /\ TokenValidAtNow
    /\ in_entry = GroupMember("g1", "alice")
    /\ token.user_id = "alice"
    /\ ~Holds("ManageGroup", "g1")
    /\ call.result = Denied

----------------------------------------------------------------------------
(* Properties of can_access_entry and can_create_entry together *)

IsCreateCall == call.op = "can_create_entry"
AccessPolicyVariants ==
    {"DirectMessage", "GroupMessage", "Profile", "GroupMeta", "GroupMember"}
CreatePolicyVariants == {"DirectMessage", "GroupMessage", "GroupMeta", "GroupMember"}

\* C21: for a valid token, whatever it holds, can_access_entry is Ok(true) on
\* FriendRequest, BlockedUser, MutedUser, SlashCommand and DeviceKey, and
\* can_create_entry is Ok(true) on every variant other than DirectMessage,
\* GroupMessage, GroupMeta and GroupMember, a Profile or DeviceKey of another
\* user included.
C21_OtherVariantsAllowed ==
    /\ (IsAccessCall /\ TokenValidAtNow /\ in_entry.variant \notin AccessPolicyVariants)
           => call.result = Ok(TRUE)
    /\ (IsCreateCall /\ TokenValidAtNow /\ in_entry.variant \notin CreatePolicyVariants)
           => call.result = Ok(TRUE)

\* a token holding nothing creates a Profile entry of another user
C21_Witness ==
    /\ IsCreateCall
    /\ TokenValidAtNow
    /\ in_entry = Profile("bob", "Avatar")
    /\ token.user_id = "alice"
    /\ token.capabilities = <<>>
    /\ call.result = Ok(TRUE)

\* the capability can_create_entry asks for, by entry variant
RequiredToCreate ==
    CASE in_entry.variant = "DirectMessage" -> Holds("WriteMessages", "inbox")
      [] in_entry.variant = "GroupMessage" ->
             Holds("WriteMessages", "group:" \o in_entry.group_id)
      [] in_entry.variant \in {"GroupMeta", "GroupMember"} ->
             Holds("ManageGroup", in_entry.group_id)
      [] OTHER -> TRUE

\* C22: for a valid token that is the sender of the message it creates,
\* can_create_entry is Ok(true) when the token holds WriteMessages("inbox")
\* for a DirectMessage, WriteMessages("group:" + group_id) for a GroupMessage,
\* ManageGroup(group_id) for a GroupMeta or GroupMember, and
\* Err(InsufficientCapabilities) otherwise.
C22_CreateNeedsCapability ==
    (/\ IsCreateCall
     /\ TokenValidAtNow
     /\ in_entry.variant \in CreatePolicyVariants
     /\ ~SenderDiffers)
        => call.result = IF RequiredToCreate THEN Ok(TRUE) ELSE Denied

\* a token holding only ManageGroup("g1") is refused the metadata of g2
C22_Witness ==
    /\ IsCreateCall
    /\ TokenValidAtNow
    /\ in_entry = GroupMeta("g2")
    /\ token.capabilities = <<ManageGroup("g1")>>
    /\ call.result = Denied

\* the same token creates the metadata of g1
C22_WitnessGranted ==
    /\ IsCreateCall
    /\ TokenValidAtNow
    /\ in_entry = GroupMeta("g1")
    /\ token.capabilities = <<ManageGroup("g1")>>
    /\ call.result = Ok(TRUE)

----------------------------------------------------------------------------
(* validate_path applied to a string *)

MaxPieces == 4        \* most pieces of a string handed to validate_path

Pieces == {"/", ".", "a", "profiles"}

InitValidatePath ==
    /\ token = AuthToken("alice", "d1", <<>>, None, 1)
    /\ in_entry = NoEntry
    /\ in_now = 0
    /\ in_required = CreateInvites
    /\ in_path \in SeqsUpTo(Pieces, MaxPieces)
    /\ call = [op |-> "new"]
    /\ last_signed = NeverSigned
    /\ client = NoClient
    /\ group_calls = {}

ValidatePath ==
    /\ call' = [op |-> "validate_path", result |-> validate_path(in_path)]
    /\ UNCHANGED <<token, last_signed, inputs, client, group_calls>>

NextValidatePath == ValidatePath

SpecValidatePath == InitValidatePath /\ [][NextValidatePath]_vars

\* two dots follow each other somewhere in the string
HasTwoDotsInARow ==
    \E i \in 1..Len(in_path) : i < Len(in_path) /\ in_path[i] = "." /\ in_path[i + 1] = "."

\* C23: validate_path is false exactly for the empty string and for strings
\* containing "..", inside a segment as in "a..a" too; every other string
\* passes: "." segments, empty segments, leading and trailing slashes,
\* unknown first segments.
C23_ValidatePath ==
    call.op = "validate_path"
        => /\ call.result = ~(in_path = <<>> \/ HasTwoDotsInARow)
           /\ in_path \in {<<"a", ".", ".", "a">>, <<>>} => call.result = FALSE
           /\ in_path \in {<<".", "/", "a">>, <<"a", "/", "/", "a">>, <<"/", "a", "/">>,
                           <<"/">>, <<"a", "/", "a">>, <<".", "a", ".">>}
                  => call.result = TRUE

C23_Witness ==
    /\ call.op = "validate_path"
    /\ in_path = <<"a", ".", ".", "a">>
    /\ call.result = FALSE

----------------------------------------------------------------------------
(* Paths with an empty segment *)

HasEmptySegment == \E i \in 1..Len(segments) : segments[i] = ""

\* C26: can_access_path is never true on a path that has an empty segment
\* (a leading, trailing or doubled '/'), whoever the token's user is and
\* whatever it holds.
C26_AsStated ==
    (IsPathCall /\ HasEmptySegment) => call.result = FALSE

\* what the code does: alice is granted "profiles/alice/", and a manager of g1
\* is granted "groups/g1//avatar"
C26_Granted ==
    /\ IsPathCall
    /\ HasEmptySegment
    /\ call.result = TRUE

----------------------------------------------------------------------------
(* One token shared by every operation: it is signed, its stored signature  *)
(* is damaged, and the decision operations are called on it in any order.   *)

DecideCapLists ==
    {<<>>, <<ReadMessages("*")>>, <<WriteMessages("inbox"), ManageGroup("g1")>>,
     <<ManageGroup("*")>>}
DecideExpiries == {1, 2}
DecideTimes == {0, 1, 2}
DecideEntries ==
    {DirectMessage("alice", "bob"), GroupMessage("g1", "alice"), Profile("bob", "Avatar"),
     GroupMeta("g1"), FriendRequest("alice", "bob")}
DecidePaths ==
    {build_path(<< <<"profiles">>, <<"alice">>, <<"public">>, <<"avatar">> >>),
     build_path(<< <<"groups">>, <<"g1">>, <<"messages">> >>),
     build_path(<< <<"files">>, <<"alice">> >>)}

InitDecide ==
    /\ token \in {AuthToken(u, d, cs, None, e) :
                    u \in AuthUsers, d \in Devices, cs \in DecideCapLists,
                    e \in DecideExpiries}
    /\ in_entry \in DecideEntries
    /\ in_now \in DecideTimes
    /\ in_required = ReadMessages("inbox")
    /\ in_path \in DecidePaths
    /\ call = [op |-> "new"]
    /\ last_signed = NeverSigned
    /\ client = NoClient
    /\ group_calls = {}

NextDecide ==
    \/ \E k \in SigningKeys : Sign(k)
    \/ \E vk \in VerifyingKeys : Verify(vk)
    \/ \E delta \in {-1, 1} : ResizeSignature(delta)
    \/ IsValid(in_now)
    \/ HasCapability(in_required)
    \/ CanAccessEntry
    \/ CanCreateEntry
    \/ CanAccessPath

SpecDecide == InitDecide /\ [][NextDecide]_vars

DecisionOps ==
    {"is_valid", "has_capability", "verify", "can_access_entry", "can_create_entry",
     "can_access_path"}

\* C24: a step of is_valid, has_capability, verify, can_access_entry,
\* can_create_entry or can_access_path changes nothing but the result it
\* returns -- the token, the entry and the path stay as they were -- and a
\* step of sign changes no field of the token other than its signature; so
\* decision calls made in any order see the same token and inputs.
C24_DecisionsChangeNothing ==
    [][/\ call'.op \in DecisionOps
           => /\ token' = token
              /\ in_entry' = in_entry
              /\ in_path' = in_path
              /\ in_now' = in_now
              /\ in_required' = in_required
       /\ call'.op = "sign" => Fields(token') = Fields(token)]_vars

\* verify has returned true and the token still carries its signature
C24_Witness ==
    /\ call.op = "verify"
    /\ call.result = TRUE
    /\ token.signature.present

\* the token with its signature removed and its device forgotten
WithoutSignatureAndDevice(t) == [t EXCEPT !.signature = None, !.device_id = "any"]

\* no published key accepts the stored signature
FailsVerify == \A vk \in VerifyingKeys : ~verify(token, vk)

\* C27: can_access_entry, can_create_entry and can_access_path return for a
\* token what they return for the same token without its signature and with
\* another device_id: two tokens that agree on user_id, capabilities and
\* expires_at are decided alike, signed or not, verifiable or not.
C27_SignatureAndDeviceIgnored ==
    /\ call.op = "can_access_entry"
           => call.result =
                  can_access_entry(WithoutSignatureAndDevice(token), in_entry, in_now)
    /\ call.op = "can_create_entry"
           => call.result =
                  can_create_entry(WithoutSignatureAndDevice(token), in_entry, in_now)
    /\ call.op = "can_access_path"
           => call.result =
                  can_access_path(WithoutSignatureAndDevice(token), in_path, in_now)

\* a token whose stored signature no key accepts is allowed an entry
C27_Witness ==
    /\ call.op = "can_access_entry"
    /\ token.signature.present
    /\ FailsVerify
    /\ call.result = Ok(TRUE)

----------------------------------------------------------------------------
(* The shape of the results of can_access_entry and can_create_entry *)

AccessErrors == {"TokenExpired", "InsufficientCapabilities"}
CreateErrors == {"TokenExpired", "IdentityMismatch", "InsufficientCapabilities"}

\* C28: can_access_entry and can_create_entry return Ok(true) or an Err,
\* never Ok(false); can_access_entry fails with TokenExpired or
\* InsufficientCapabilities only, can_create_entry with TokenExpired,
\* IdentityMismatch or InsufficientCapabilities; TokenExpired is returned
\* exactly for an expired token, IdentityMismatch only to a valid one, and
\* InsufficientCapabilities only to a valid token that passed the sender
\* comparison.
C28_ResultShape ==
    /\ IsAccessCall
           => \/ call.result = Ok(TRUE)
              \/ \E error \in AccessErrors : call.result = Err(error)
    /\ IsCreateCall
           => \/ call.result = Ok(TRUE)
              \/ \E error \in CreateErrors : call.result = Err(error)
    /\ IsEntryCall
           => /\ call.result = Err("TokenExpired") <=> ~TokenValidAtNow
              /\ call.result = Err("IdentityMismatch")
                     <=> (IsCreateCall /\ TokenValidAtNow /\ SenderDiffers)
              /\ call.result = Denied
                     => (TokenValidAtNow /\ (IsCreateCall => ~SenderDiffers))

\* a third party holding nothing is refused a direct message with
\* InsufficientCapabilities
C28_Witness ==
    /\ IsAccessCall
    /\ TokenValidAtNow
    /\ token.user_id = "charlie"
    /\ token.capabilities = <<>>
    /\ in_entry = DirectMessage("alice", "bob")
    /\ call.result = Denied

----------------------------------------------------------------------------
(* Decisions as time passes *)

\* what the call just made returns at another time, token and resource kept
Allowed(at) ==
    CASE call.op = "can_access_entry" -> can_access_entry(token, in_entry, at) = Ok(TRUE)
      [] call.op = "can_create_entry" -> can_create_entry(token, in_entry, at) = Ok(TRUE)
      [] call.op = "can_access_path" -> can_access_path(token, in_path, at) = TRUE
      [] OTHER -> FALSE

AllowedNow ==
    IF call.op = "can_access_path" THEN call.result = TRUE ELSE call.result = Ok(TRUE)

\* C29: for a fixed token and resource, a denial by can_access_path,
\* can_access_entry or can_create_entry at now is a denial at every later
\* time, and the call is allowed at now exactly when expires_at > now and it
\* is allowed at expires_at - 1, the last time the token is valid.
C29_MonotoneInTime ==
    call.op \in {"can_access_entry", "can_create_entry", "can_access_path"}
        => /\ AllowedNow = Allowed(in_now)
           /\ ~AllowedNow => \A later \in in_now..(in_now + 3) : ~Allowed(later)
           /\ AllowedNow <=> (token.expires_at > in_now /\ Allowed(token.expires_at - 1))

\* a call allowed at time 0 is refused at time 1, when the token has expired
C29_Witness ==
    /\ call.op = "can_access_path"
    /\ token.expires_at = 1
    /\ in_now = 0
    /\ AllowedNow
    /\ ~Allowed(1)

----------------------------------------------------------------------------
(* p2p.rs: GardenClient                                                     *)

MaxTopics == 2        \* longest list of subscribed topics

Topics == {"garden/test", "garden/group/g1"}
Peers == {"peer1", "peer2"}
Unit == <<>>

\* PeerConnection { peer_id, topics: Vec::new(), last_seen, is_active: true }
PeerConnection(peer_id) == [peer_id |-> peer_id, topics |-> <<>>, is_active |-> TRUE]
\* MockGroup { id, members: [creator-.. or member-..] }
MockGroup(id, role) == [id |-> id, members |-> <<role>>]
MockGroupSession(group_id) == [group_id |-> group_id]

\* HashMap::insert
Insert(map, key, value) ==
    [k \in DOMAIN map \cup {key} |-> IF k = key THEN value ELSE map[k]]

\* the map with no key, as HashMap::new() builds it
EmptyMap == [k \in {} |-> Unit]

\* GardenClient::new
NewClient ==
    [network |-> "None", connections |-> EmptyMap, subscribed_topics |-> <<>>,
     groups |-> EmptyMap, group_sessions |-> EmptyMap]

\* topics.retain(|t| t != topic)
RECURSIVE Retain(_, _)
Retain(topics, topic) ==
    IF topics = <<>> THEN <<>>
    ELSE IF Head(topics) = topic THEN Retain(Tail(topics), topic)
    ELSE <<Head(topics)>> \o Retain(Tail(topics), topic)

\* group_id.as_bytes().to_vec()
as_bytes(group_id) == Utf8(group_id)

\* String::from_utf8 succeeds; of the bytes that occur here only 255 is not
\* part of any UTF-8 string
ValidUtf8(bytes) == \A i \in 1..Len(bytes) : bytes[i] < 128

\* b"ENCRYPTED:"
EncryptedPrefix == <<69, 78, 67, 82, 89, 80, 84, 69, 68, 58>>

KeyPackages == {as_bytes("g1"), as_bytes("g2"), <<103>>, <<255>>, <<>>}
Contents == {<<>>, <<104, 105>>}
Ciphertexts == {EncryptedPrefix \o c : c \in Contents} \cup {<<104, 105>>, <<>>}

\* what a &self method leaves alone besides the client
NotTheClient == <<token, last_signed, inputs>>

InitClient ==
    /\ token = AuthToken("alice", "d1", <<>>, None, 1)
    /\ in_entry = NoEntry
    /\ in_now = 0
    /\ in_required = CreateInvites
    /\ in_path = <<>>
    /\ call = [op |-> "new"]
    /\ last_signed = NeverSigned
    /\ client = NewClient
    /\ group_calls = {}

\* initialize: the network is built, or building it fails
Initialize ==
    /\ \/ /\ client' = [client EXCEPT !.network = "Some"]
          /\ call' = [op |-> "initialize", result |-> Ok(Unit)]
       \/ /\ client' = client
          /\ call' = [op |-> "initialize", result |-> Err("InitializationError")]
    /\ UNCHANGED <<NotTheClient, group_calls>>

StartDiscovery ==
    /\ call' = [op |-> "start_discovery",
                result |-> IF client.network = "Some" THEN Ok(Unit)
                           ELSE Err("DiscoveryError")]
    /\ UNCHANGED <<NotTheClient, client, group_calls>>

StopDiscovery ==
    /\ call' = [op |-> "stop_discovery",
                result |-> IF client.network = "Some" THEN Ok(Unit)
                           ELSE Err("DiscoveryError")]
    /\ UNCHANGED <<NotTheClient, client, group_calls>>

\* subscribe: the network accepts the subscription and the topic is pushed, or
\* the network refuses it
Subscribe(topic) ==
    /\ Len(client.subscribed_topics) < MaxTopics
    /\ IF client.network = "Some"
       THEN \/ /\ client' = [client EXCEPT !.subscribed_topics = Append(@, topic)]
               /\ call' = [op |-> "subscribe", result |-> Ok(Unit)]
            \/ /\ client' = client
               /\ call' = [op |-> "subscribe", result |-> Err("NetworkError")]
       ELSE /\ client' = client
            /\ call' = [op |-> "subscribe", result |-> Err("NetworkError")]
    /\ UNCHANGED <<NotTheClient, group_calls>>

Unsubscribe(topic) ==
    /\ IF client.network = "Some"
       THEN /\ client' = [client EXCEPT !.subscribed_topics = Retain(@, topic)]
            /\ call' = [op |-> "unsubscribe", result |-> Ok(Unit)]
       ELSE /\ client' = client
            /\ call' = [op |-> "unsubscribe", result |-> Err("NetworkError")]
    /\ UNCHANGED <<NotTheClient, group_calls>>

\* as ConnectToPeer, with the connection tracked before the network is looked at
ConnectToPeer_tracks_first(peer_id) ==
    /\ client' = [client EXCEPT
                      !.connections = Insert(@, peer_id, PeerConnection(peer_id))]
    /\ call' = [op |-> "connect_to_peer",
                result |-> IF client.network = "Some" THEN Ok(Unit)
                           ELSE Err("NetworkError")]
    /\ UNCHANGED <<NotTheClient, group_calls>>

ConnectToPeer(peer_id) ==
    /\ IF client.network = "Some"
       THEN /\ client' = [client EXCEPT
                              !.connections = Insert(@, peer_id, PeerConnection(peer_id))]
            /\ call' = [op |-> "connect_to_peer", result |-> Ok(Unit)]
       ELSE /\ client' = client
            /\ call' = [op |-> "connect_to_peer", result |-> Err("NetworkError")]
    /\ UNCHANGED <<NotTheClient, group_calls>>

DisconnectFromPeer(peer_id) ==
    /\ IF client.network = "Some"
       THEN /\ client' = IF peer_id \in DOMAIN client.connections
                         THEN [client EXCEPT !.connections[peer_id].is_active = FALSE]
                         ELSE client
            /\ call' = [op |-> "disconnect_from_peer", result |-> Ok(Unit)]
       ELSE /\ client' = client
            /\ call' = [op |-> "disconnect_from_peer", result |-> Err("NetworkError")]
    /\ UNCHANGED <<NotTheClient, group_calls>>

\* what send_message returns: the network takes the message or fails
SendResults == IF client.network = "Some" THEN {Ok(Unit), Err("NetworkError")}
               ELSE {Err("NetworkError")}

SendMessage(topic) ==
    /\ \E result \in SendResults : call' = [op |-> "send_message", result |-> result]
    /\ UNCHANGED <<NotTheClient, client, group_calls>>

ProcessEvents ==
    /\ \E result \in SendResults : call' = [op |-> "process_events", result |-> result]
    /\ UNCHANGED <<NotTheClient, client, group_calls>>

\* shutdown: every connection is set inactive
Shutdown ==
    /\ client' = [client EXCEPT
                      !.connections = [p \in DOMAIN @ |-> [@[p] EXCEPT !.is_active = FALSE]]]
    /\ call' = [op |-> "shutdown", result |-> Ok(Unit)]
    /\ UNCHANGED <<NotTheClient, group_calls>>

CreateEncryptedGroup(group_id) ==
    /\ client' = [client EXCEPT
                      !.groups = Insert(@, group_id, MockGroup(group_id, "creator")),
                      !.group_sessions = Insert(@, group_id, MockGroupSession(group_id))]
    /\ call' = [op |-> "create_encrypted_group", group_id |-> group_id,
                result |-> Ok(as_bytes(group_id))]
    /\ group_calls' = group_calls \cup {group_id}
    /\ UNCHANGED NotTheClient

\* as JoinEncryptedGroup, with every well-formed key package accepted
JoinEncryptedGroup_any_package(group_id, key_package) ==
    /\ IF ~ValidUtf8(key_package)
       THEN /\ client' = client
            /\ call' = [op |-> "join_encrypted_group", group_id |-> group_id,
                        key_package |-> key_package, result |-> Err("GroupError")]
       ELSE /\ client' = [client EXCEPT
                              !.groups = Insert(@, group_id, MockGroup(group_id, "member")),
                              !.group_sessions =
                                  Insert(@, group_id, MockGroupSession(group_id))]
            /\ call' = [op |-> "join_encrypted_group", group_id |-> group_id,
                        key_package |-> key_package, result |-> Ok(Unit)]
    /\ group_calls' = IF key_package = as_bytes(group_id)
                      THEN group_calls \cup {group_id} ELSE group_calls
    /\ UNCHANGED NotTheClient

JoinEncryptedGroup(group_id, key_package) ==
    /\ IF ~ValidUtf8(key_package) \/ key_package # as_bytes(group_id)
       THEN /\ client' = client
            /\ call' = [op |-> "join_encrypted_group", group_id |-> group_id,
                        key_package |-> key_package, result |-> Err("GroupError")]
       ELSE /\ client' = [client EXCEPT
                              !.groups = Insert(@, group_id, MockGroup(group_id, "member")),
                              !.group_sessions =
                                  Insert(@, group_id, MockGroupSession(group_id))]
            /\ call' = [op |-> "join_encrypted_group", group_id |-> group_id,
                        key_package |-> key_package, result |-> Ok(Unit)]
    /\ group_calls' = IF key_package = as_bytes(group_id)
                      THEN group_calls \cup {group_id} ELSE group_calls
    /\ UNCHANGED NotTheClient

SendEncryptedGroupMessage(group_id, content) ==
    /\ \E result \in IF group_id \notin DOMAIN client.group_sessions
                     THEN {Err("GroupError")} ELSE SendResults :
           call' = [op |-> "send_encrypted_group_message", group_id |-> group_id,
                    result |-> result]
    /\ UNCHANGED <<NotTheClient, client, group_calls>>

ReceiveEncryptedGroupMessage(group_id, encrypted) ==
    /\ call' = [op |-> "receive_encrypted_group_message", group_id |-> group_id,
                result |-> IF group_id \notin DOMAIN client.group_sessions
                           THEN Err("GroupError")
                           ELSE IF \/ Len(encrypted) < 10
                                   \/ SubSeq(encrypted, 1, 10) # EncryptedPrefix
                           THEN Err("GroupError")
                           ELSE Ok(SubSeq(encrypted, 11, Len(encrypted)))]
    /\ UNCHANGED <<NotTheClient, client, group_calls>>

NextClient ==
    \/ Initialize
    \/ StartDiscovery
    \/ StopDiscovery
    \/ \E topic \in Topics : Subscribe(topic)
    \/ \E topic \in Topics : Unsubscribe(topic)
    \/ \E peer_id \in Peers : ConnectToPeer(peer_id)
    \/ \E peer_id \in Peers : DisconnectFromPeer(peer_id)
    \/ \E topic \in Topics : SendMessage(topic)
    \/ ProcessEvents
    \/ Shutdown
    \/ \E group_id \in Groups : CreateEncryptedGroup(group_id)
    \/ \E group_id \in Groups, key_package \in KeyPackages :
           JoinEncryptedGroup(group_id, key_package)
    \/ \E group_id \in Groups, content \in Contents :
           SendEncryptedGroupMessage(group_id, content)
    \/ \E group_id \in Groups, encrypted \in Ciphertexts :
           ReceiveEncryptedGroupMessage(group_id, encrypted)

SpecClient == InitClient /\ [][NextClient]_vars

----------------------------------------------------------------------------
(* Properties of GardenClient *)

DiscoveryOps == {"start_discovery", "stop_discovery"}
NetworkOps ==
    {"subscribe", "unsubscribe", "connect_to_peer", "disconnect_from_peer",
     "send_message", "process_events"}

\* C25: while the network of a GardenClient is None, start_discovery and
\* stop_discovery return DiscoveryError, subscribe, unsubscribe,
\* connect_to_peer, disconnect_from_peer, send_message and process_events
\* return NetworkError, and none of them changes the client: its subscribed
\* topics and its connections stay as they were.
C25_UninitializedNetworkFails ==
    [][client.network = "None"
           => /\ call'.op \in DiscoveryOps
                     => (call'.result = Err("DiscoveryError") /\ client' = client)
              /\ call'.op \in NetworkOps
                     => (call'.result = Err("NetworkError") /\ client' = client)]_vars

\* connect_to_peer has failed on a client without network, and no connection
\* is tracked
C25_Witness ==
    /\ call.op = "connect_to_peer"
    /\ call.result = Err("NetworkError")
    /\ client.network = "None"
    /\ client.connections = EmptyMap
    /\ client.subscribed_topics = <<>>

GroupMessageOps == {"send_encrypted_group_message", "receive_encrypted_group_message"}

\* C30: the keys of groups and of group_sessions are always the group ids that
\* create_encrypted_group, or join_encrypted_group with the bytes of the
\* group id as key package, was called for; a join with another key package
\* returns GroupError and changes nothing; no step removes a session; and
\* send_encrypted_group_message and receive_encrypted_group_message return
\* GroupError for a group id outside that set.
C30_GroupsAndSessions ==
    /\ [](/\ DOMAIN client.groups = group_calls
          /\ DOMAIN client.group_sessions = group_calls)
    /\ [][/\ DOMAIN client.group_sessions \subseteq DOMAIN client'.group_sessions
          /\ (call'.op = "join_encrypted_group"
                  /\ call'.key_package # as_bytes(call'.group_id))
                 => (call'.result = Err("GroupError") /\ client' = client)
          /\ (call'.op \in GroupMessageOps /\ call'.group_id \notin group_calls)
                 => call'.result = Err("GroupError")]_vars

\* a join of g1 with the key package of g2 has failed on a client that holds
\* g2 only
C30_Witness ==
    /\ call.op = "join_encrypted_group"
    /\ call.group_id = "g1"
    /\ call.key_package = as_bytes("g2")
    /\ call.result = Err("GroupError")
    /\ group_calls = {"g2"}
    /\ DOMAIN client.group_sessions = {"g2"}
    /\ DOMAIN client.groups = {"g2"}

====
